---- MODULE Spec2Model ----
(***************************************************************************)
(* Model of hertz-study:                                                   *)
(*   pkg/route/routergroup.go   the route-group composition layer          *)
(*   pkg/app/server/hertz.go    Spin, the run/shutdown orchestration       *)
(*                                                                         *)
(* Strings that the code inspects character by character (paths) are       *)
(* sequences of one-character strings.  Handler chains are Go slices: a    *)
(* slice is a reference [arr, len] into a heap of backing arrays, so that  *)
(* sharing of storage between two chains is something a step can cause    *)
(* and a property can observe.                                             *)
(***************************************************************************)
EXTENDS Integers, Sequences, FiniteSets

VARIABLES
    heap,      \* backing arrays of all handler slices, in allocation order
    groups,    \* the RouterGroup objects, groups[1] is the root group
    routes,    \* the calls made to engine.addRoute, in order
    panic,     \* "" while configuration runs, else the panic message
    last,      \* the last call made on a group and its arguments
    nCalls,    \* number of calls made on the groups
    nReg,      \* number of route registration calls among them
    made,      \* history: for each group its parent, the arguments of Group and
               \* the parent's chain at its creation, and the Use calls on it since
    \* ---- Spin (pkg/app/server/hertz.go)
    pc,        \* where the task that called Spin is
    opts,      \* h.signalWaiter set or not, ExitWaitTimeout, SIGHUP ignored or not
    notified,  \* the signals signal.Notify subscribed the channel to
    signals,   \* the buffered channel of waitSignal (capacity 1)
    nSig,      \* signals the process has been sent
    tasks,     \* the two tasks that send on errCh: "run" and "reg"
    won,       \* what the signal waiter received, and what it returned
    calls      \* what Spin invoked: Close, context.WithTimeout, Shutdown

rvars == <<heap, groups, routes, panic, last, nCalls, nReg, made>>
svars == <<pc, opts, notified, signals, nSig, tasks, won, calls>>
vars == <<rvars, svars>>

-----------------------------------------------------------------------------
(* Bounds of the model *)

MaxCalls == 3       \* calls made on the groups after construction
MaxReg == 1         \* calls of a registration method among them
MaxSignals == 2     \* signals sent to the process while Spin runs

(* rConsts.AbortIndex is set in pkg/route/consts; the specification calls it *)
(* a configured sentinel value.  Every statement is relative to it.          *)
AbortIndex == 4

-----------------------------------------------------------------------------
(* Paths *)

Slash == "/"

RECURSIVE CleanLoop(_, _, _, _, _)
(* The loop of path.Clean: p the path, r the read index (1-based, so r > n *)
(* ends), out the output buffer, dotdot the index where .. must stop.      *)
CleanLoop(p, r, out, dotdot, rooted) ==
    LET n == Len(p) IN
    IF r > n THEN out
    ELSE IF p[r] = Slash THEN CleanLoop(p, r + 1, out, dotdot, rooted)
    ELSE IF p[r] = "." /\ (r = n \/ p[r + 1] = Slash)
         THEN CleanLoop(p, r + 1, out, dotdot, rooted)
    ELSE IF p[r] = "." /\ p[r + 1] = "." /\ (r + 1 = n \/ p[r + 2] = Slash)
         THEN IF Len(out) > dotdot
              THEN \* backtrack to the previous separator
                   LET cut == CHOOSE w \in dotdot..(Len(out) - 1) :
                                /\ (w = dotdot \/ out[w + 1] = Slash)
                                /\ \A v \in (w + 1)..(Len(out) - 1) :
                                      out[v + 1] # Slash
                   IN CleanLoop(p, r + 2, SubSeq(out, 1, cut), dotdot, rooted)
              ELSE IF ~rooted
                   THEN LET o2 == (IF Len(out) > 0 THEN Append(out, Slash) ELSE out)
                                  \o <<".", ".">>
                        IN CleanLoop(p, r + 2, o2, Len(o2), rooted)
                   ELSE CleanLoop(p, r + 2, out, dotdot, rooted)
    ELSE LET o1 == IF (rooted /\ Len(out) # 1) \/ (~rooted /\ Len(out) # 0)
                   THEN Append(out, Slash) ELSE out
             stop == CHOOSE e \in r..n :
                        /\ \A i \in r..e : p[i] # Slash
                        /\ (e = n \/ p[e + 1] = Slash)
         IN CleanLoop(p, stop + 1, o1 \o SubSeq(p, r, stop), dotdot, rooted)

(* path.Clean *)
Clean(p) ==
    IF p = <<>> THEN <<".">>
    ELSE LET rooted == p[1] = Slash
             out == IF rooted THEN CleanLoop(p, 2, <<Slash>>, 1, TRUE)
                              ELSE CleanLoop(p, 1, <<>>, 0, FALSE)
         IN IF out = <<>> THEN <<".">> ELSE out

(* path.Join of two elements *)
PathJoin(a, b) ==
    IF Len(a) + Len(b) = 0 THEN <<>>
    ELSE IF a = <<>> THEN Clean(b)
    ELSE Clean(a \o <<Slash>> \o b)

lastChar(str) == str[Len(str)]

(* variant: the trailing separator of the relative path is not restored *)
joinPathsNoTrailingSlash(absolutePath, relativePath) ==
    IF relativePath = <<>> THEN absolutePath
    ELSE PathJoin(absolutePath, relativePath)

joinPaths(absolutePath, relativePath) ==
    IF relativePath = <<>> THEN absolutePath
    ELSE LET finalPath == PathJoin(absolutePath, relativePath)
             appendSlash == lastChar(relativePath) = Slash
                            /\ lastChar(finalPath) # Slash
         IN IF appendSlash THEN Append(finalPath, Slash) ELSE finalPath

Contains(str, ch) == \E i \in 1..Len(str) : str[i] = ch

-----------------------------------------------------------------------------
(* Handler chains: Go slices over a heap of backing arrays *)

NilSlice == [arr |-> 0, len |-> 0]

Cap(h, s) == IF s.arr = 0 THEN 0 ELSE Len(h[s.arr])

(* the elements of slice s *)
Elems(h, s) == IF s.arr = 0 THEN <<>> ELSE SubSeq(h[s.arr], 1, s.len)

Pad(n) == [i \in 1..n |-> "nil"]

(* append(s, xs...): writes in place while the capacity suffices, else     *)
(* allocates an array of the needed size plus slack and copies.            *)
GoAppend(h, s, xs, slack) ==
    LET need == s.len + Len(xs) IN
    IF need <= Cap(h, s)
    THEN [heap  |-> IF Len(xs) = 0 THEN h
                    ELSE [h EXCEPT ![s.arr] =
                            [i \in 1..Len(@) |->
                               IF i > s.len /\ i <= need THEN xs[i - s.len]
                               ELSE @[i]]],
          slice |-> [arr |-> s.arr, len |-> need]]
    ELSE [heap  |-> Append(h, Elems(h, s) \o xs \o Pad(slack)),
          slice |-> [arr |-> Len(h) + 1, len |-> need]]

(* the chain held by group g *)
Handlers(g) == Elems(heap, groups[g].Handlers)

(* variant: the limit test is > instead of >= *)
combineHandlersOffByOne(h, group, handlers) ==
    LET finalSize == group.Handlers.len + Len(handlers) IN
    IF finalSize > AbortIndex
    THEN [panic |-> "too many handlers", heap |-> h, slice |-> NilSlice]
    ELSE [panic |-> "",
          heap  |-> Append(h, Elems(h, group.Handlers) \o handlers),
          slice |-> [arr |-> Len(h) + 1, len |-> finalSize]]

(* variant: the limit test looks at the additional handlers only *)
combineHandlersChecksAdditional(h, group, handlers) ==
    LET finalSize == group.Handlers.len + Len(handlers) IN
    IF Len(handlers) >= AbortIndex
    THEN [panic |-> "too many handlers", heap |-> h, slice |-> NilSlice]
    ELSE [panic |-> "",
          heap  |-> Append(h, Elems(h, group.Handlers) \o handlers),
          slice |-> [arr |-> Len(h) + 1, len |-> finalSize]]

(* variant: no limit test *)
combineHandlersUnchecked(h, group, handlers) ==
    [panic |-> "",
     heap  |-> Append(h, Elems(h, group.Handlers) \o handlers),
     slice |-> [arr |-> Len(h) + 1, len |-> group.Handlers.len + Len(handlers)]]

(* variant: append(group.Handlers, handlers...) instead of make and copy *)
combineHandlersAppend(h, group, handlers) ==
    LET finalSize == group.Handlers.len + Len(handlers)
        a == GoAppend(h, group.Handlers, handlers, 0)
    IN IF finalSize >= AbortIndex
       THEN [panic |-> "too many handlers", heap |-> h, slice |-> NilSlice]
       ELSE [panic |-> "", heap |-> a.heap, slice |-> a.slice]

(* RouterGroup.combineHandlers: make(finalSize), copy, copy *)
combineHandlers(h, group, handlers) ==
    LET finalSize == group.Handlers.len + Len(handlers) IN
    IF finalSize >= AbortIndex
    THEN [panic |-> "too many handlers", heap |-> h, slice |-> NilSlice]
    ELSE [panic |-> "",
          heap  |-> Append(h, Elems(h, group.Handlers) \o handlers),
          slice |-> [arr |-> Len(h) + 1, len |-> finalSize]]

calculateAbsolutePath(group, relativePath) ==
    joinPaths(group.basePath, relativePath)

-----------------------------------------------------------------------------
(* Method tokens (pkg/protocol/consts) *)

MethodGet == <<"G", "E", "T">>
MethodPost == <<"P", "O", "S", "T">>
MethodPut == <<"P", "U", "T">>
MethodPatch == <<"P", "A", "T", "C", "H">>
MethodHead == <<"H", "E", "A", "D">>
MethodOptions == <<"O", "P", "T", "I", "O", "N", "S">>
MethodDelete == <<"D", "E", "L", "E", "T", "E">>
MethodConnect == <<"C", "O", "N", "N", "E", "C", "T">>
MethodTrace == <<"T", "R", "A", "C", "E">>

UpperLetters == {"A", "B", "C", "D", "E", "F", "G", "H", "I", "J", "K", "L", "M",
                 "N", "O", "P", "Q", "R", "S", "T", "U", "V", "W", "X", "Y", "Z"}

(* variant: the expression without its anchors, [A-Z]+ *)
upperLetterRegUnanchored(httpMethod) ==
    \E i \in 1..Len(httpMethod) : httpMethod[i] \in UpperLetters

(* upperLetterReg.MatchString, the expression ^[A-Z]+$ *)
upperLetterReg(httpMethod) ==
    /\ Len(httpMethod) >= 1
    /\ \A i \in 1..Len(httpMethod) : httpMethod[i] \in UpperLetters

-----------------------------------------------------------------------------
(* Inputs *)

(* handlers passed to a registration, middleware passed to Use and to Group *)
HandlerArgs == { <<"handler">>, <<"loggingMW", "handler">> }
UseArgs == { <<"authMW">>, <<"authMW", "loggingMW">> }
GroupArgs == { <<>>, <<"loggingMW">> }
GroupPaths == { <<"/", "a", "p", "i">>, <<"v", "1", "/">> }
Users == <<"/", "u", "s", "e", "r", "s">>
RelPaths == { <<>>, Users, <<"x", "/">> }
StaticPaths == { <<"x", "/">>, <<"/", ":", "i", "d">>, <<"/", "*", "f">> }
HandleMethods == { <<"P", "U", "R", "G", "E">>, <<"g", "e", "t">>,
                   <<"G", "E", "T", " ">>, <<"G", "3", "T">>, <<"G", "-", "T">>,
                   <<"G", "E", "T", "\n">>, <<>> }
(* relative paths for the path computations: empty, rooted or not, with a  *)
(* trailing separator, with doubled separators, with . and .. segments     *)
PathInputs == { <<>>, <<"/">>, <<"a">>, <<"a", "/">>, <<"/", "a">>,
                <<".", ".">>, <<"/", ".", ".">>, <<".", "/">>, <<"a", "/", "/">> }
(* those given to Group, to GET and to Static *)
GroupRels == { <<>>, <<"a">>, <<"a", "/">>, <<"/", ".", ".">>, <<"a", "/", "/">> }
GetRels == { <<"/">>, <<"/", "a">>, <<".", ".">>, <<".", "/">>, <<"a", "/">> }
StaticRels == { <<"/", ".", ".">>, <<"a", "/">> }
(* spare capacity the runtime may give a newly allocated array in append *)
Slack == {0, 1}

-----------------------------------------------------------------------------
(* The engine as seen from a group: heap, route table, panic *)

Eng == [heap |-> heap, routes |-> routes, panic |-> panic]

(* engine.addRoute(method, path, handlers): the call is recorded *)
addRoute(e, httpMethod, absolutePath, handlers) ==
    [e EXCEPT !.routes = Append(@, [method   |-> httpMethod,
                                    path     |-> absolutePath,
                                    handlers |-> handlers])]

(* variant: the relative path is registered, not the absolute one *)
handleRelativePath(e, group, httpMethod, relativePath, handlers) ==
    IF e.panic # "" THEN e
    ELSE LET c == combineHandlers(e.heap, group, handlers)
         IN IF c.panic # "" THEN [e EXCEPT !.panic = c.panic]
            ELSE addRoute([e EXCEPT !.heap = c.heap],
                          httpMethod, relativePath, c.slice)

(* RouterGroup.handle; a panic unwinds, so nothing runs once e.panic is set *)
handle(e, group, httpMethod, relativePath, handlers) ==
    IF e.panic # "" THEN e
    ELSE LET absolutePath == calculateAbsolutePath(group, relativePath)
             c == combineHandlers(e.heap, group, handlers)
         IN IF c.panic # "" THEN [e EXCEPT !.panic = c.panic]
            ELSE addRoute([e EXCEPT !.heap = c.heap],
                          httpMethod, absolutePath, c.slice)

Call(op, g, method, path, hs) ==
    [op |-> op, g |-> g, method |-> method, path |-> path, hs |-> hs]

Commit(e) ==
    /\ heap' = e.heap
    /\ routes' = e.routes
    /\ panic' = e.panic

(* a panic ends the configuration *)
Running == panic = "" /\ nCalls < MaxCalls

CanRegister == Running /\ nReg < MaxReg

Registered(e, call) ==
    /\ Commit(e)
    /\ last' = call
    /\ nCalls' = nCalls + 1
    /\ nReg' = nReg + 1
    /\ UNCHANGED <<groups, made, svars>>

-----------------------------------------------------------------------------
(* The operations of RouterGroup *)

(* variant: the middleware goes to the root group, whatever the receiver *)
UseOnRoot(g, middleware, slack) ==
    /\ Running
    /\ LET a == GoAppend(heap, groups[1].Handlers, middleware, slack) IN
         /\ heap' = a.heap
         /\ groups' = [groups EXCEPT ![1].Handlers = a.slice]
    /\ made' = [made EXCEPT ![g].uses = @ + 1]
    /\ last' = Call("Use", g, <<>>, <<>>, middleware)
    /\ nCalls' = nCalls + 1
    /\ UNCHANGED <<routes, panic, nReg, svars>>

(* Use: group.Handlers = append(group.Handlers, middleware...) *)
Use(g, middleware, slack) ==
    /\ Running
    /\ LET a == GoAppend(heap, groups[g].Handlers, middleware, slack) IN
         /\ heap' = a.heap
         /\ groups' = [groups EXCEPT ![g].Handlers = a.slice]
    /\ made' = [made EXCEPT ![g].uses = @ + 1]
    /\ last' = Call("Use", g, <<>>, <<>>, middleware)
    /\ nCalls' = nCalls + 1
    /\ UNCHANGED <<routes, panic, nReg, svars>>

(* Group: a new RouterGroup from combineHandlers and calculateAbsolutePath *)
Group(g, relativePath, handlers) ==
    /\ Running
    /\ LET c == combineHandlers(heap, groups[g], handlers) IN
         IF c.panic # ""
         THEN /\ panic' = c.panic
              /\ UNCHANGED <<heap, groups, made>>
         ELSE /\ heap' = c.heap
              /\ groups' = Append(groups,
                    [Handlers |-> c.slice,
                     basePath |-> calculateAbsolutePath(groups[g], relativePath),
                     root     |-> FALSE])
              /\ made' = Append(made, [parent |-> g, rel |-> relativePath,
                                       base |-> Handlers(g), mw |-> handlers,
                                       uses |-> 0])
              /\ panic' = panic
    /\ last' = Call("Group", g, <<>>, relativePath, handlers)
    /\ nCalls' = nCalls + 1
    /\ UNCHANGED <<routes, nReg, svars>>

Handle(g, httpMethod, relativePath, handlers) ==
    /\ CanRegister
    /\ Registered(IF ~upperLetterReg(httpMethod)
                  THEN [Eng EXCEPT !.panic = "http method is not valid"]
                  ELSE handle(Eng, groups[g], httpMethod, relativePath, handlers),
                  Call("Handle", g, httpMethod, relativePath, handlers))

POST(g, relativePath, handlers) ==
    /\ CanRegister
    /\ Registered(handle(Eng, groups[g], MethodPost, relativePath, handlers),
                  Call("POST", g, MethodPost, relativePath, handlers))

GET(g, relativePath, handlers) ==
    /\ CanRegister
    /\ Registered(handle(Eng, groups[g], MethodGet, relativePath, handlers),
                  Call("GET", g, MethodGet, relativePath, handlers))

DELETE(g, relativePath, handlers) ==
    /\ CanRegister
    /\ Registered(handle(Eng, groups[g], MethodDelete, relativePath, handlers),
                  Call("DELETE", g, MethodDelete, relativePath, handlers))

PATCH(g, relativePath, handlers) ==
    /\ CanRegister
    /\ Registered(handle(Eng, groups[g], MethodPatch, relativePath, handlers),
                  Call("PATCH", g, MethodPatch, relativePath, handlers))

PUT(g, relativePath, handlers) ==
    /\ CanRegister
    /\ Registered(handle(Eng, groups[g], MethodPut, relativePath, handlers),
                  Call("PUT", g, MethodPut, relativePath, handlers))

OPTIONS(g, relativePath, handlers) ==
    /\ CanRegister
    /\ Registered(handle(Eng, groups[g], MethodOptions, relativePath, handlers),
                  Call("OPTIONS", g, MethodOptions, relativePath, handlers))

HEAD(g, relativePath, handlers) ==
    /\ CanRegister
    /\ Registered(handle(Eng, groups[g], MethodHead, relativePath, handlers),
                  Call("HEAD", g, MethodHead, relativePath, handlers))

(* variant: the handlers accumulate from one method to the next *)
AnyCallsAccumulating(e, group, relativePath, handlers) ==
    LET e1 == handle(e, group, MethodGet, relativePath, handlers)
        e2 == handle(e1, group, MethodPost, relativePath, handlers)
        h2 == handlers \o handlers
        e3 == handle(e2, group, MethodPut, relativePath, h2)
        e4 == handle(e3, group, MethodPatch, relativePath, h2)
        e5 == handle(e4, group, MethodHead, relativePath, h2)
        e6 == handle(e5, group, MethodOptions, relativePath, h2)
        e7 == handle(e6, group, MethodDelete, relativePath, h2)
        e8 == handle(e7, group, MethodConnect, relativePath, h2)
    IN handle(e8, group, MethodTrace, relativePath, h2)

(* variant: CONNECT is not registered *)
AnyCallsNoConnect(e, group, relativePath, handlers) ==
    LET e1 == handle(e, group, MethodGet, relativePath, handlers)
        e2 == handle(e1, group, MethodPost, relativePath, handlers)
        e3 == handle(e2, group, MethodPut, relativePath, handlers)
        e4 == handle(e3, group, MethodPatch, relativePath, handlers)
        e5 == handle(e4, group, MethodHead, relativePath, handlers)
        e6 == handle(e5, group, MethodOptions, relativePath, handlers)
        e7 == handle(e6, group, MethodDelete, relativePath, handlers)
    IN handle(e7, group, MethodTrace, relativePath, handlers)

(* the nine handle calls of Any, in the order of the source *)
AnyCalls(e, group, relativePath, handlers) ==
    LET e1 == handle(e, group, MethodGet, relativePath, handlers)
        e2 == handle(e1, group, MethodPost, relativePath, handlers)
        e3 == handle(e2, group, MethodPut, relativePath, handlers)
        e4 == handle(e3, group, MethodPatch, relativePath, handlers)
        e5 == handle(e4, group, MethodHead, relativePath, handlers)
        e6 == handle(e5, group, MethodOptions, relativePath, handlers)
        e7 == handle(e6, group, MethodDelete, relativePath, handlers)
        e8 == handle(e7, group, MethodConnect, relativePath, handlers)
    IN handle(e8, group, MethodTrace, relativePath, handlers)

Any(g, relativePath, handlers) ==
    /\ CanRegister
    /\ Registered(AnyCalls(Eng, groups[g], relativePath, handlers),
                  Call("Any", g, <<>>, relativePath, handlers))

(* the function literal of StaticFile and the handler of fs.NewRequestHandler *)
FileHandler == "ctx.File"
FSHandler == "fs.NewRequestHandler"

StaticFileCalls(e, group, relativePath) ==
    IF Contains(relativePath, ":") \/ Contains(relativePath, "*")
    THEN [e EXCEPT !.panic =
            "URL parameters can not be used when serving a static file"]
    ELSE handle(handle(e, group, MethodGet, relativePath, <<FileHandler>>),
                group, MethodHead, relativePath, <<FileHandler>>)

StaticFile(g, relativePath) ==
    /\ CanRegister
    /\ Registered(StaticFileCalls(Eng, groups[g], relativePath),
                  Call("StaticFile", g, <<>>, relativePath, <<>>))

(* variant: the pattern is relativePath + "/*filepath", not their path.Join *)
StaticFSCallsConcat(e, group, relativePath) ==
    IF Contains(relativePath, ":") \/ Contains(relativePath, "*")
    THEN [e EXCEPT !.panic =
            "URL parameters can not be used when serving a static folder"]
    ELSE LET urlPattern == relativePath \o
                              <<"/", "*", "f", "i", "l", "e", "p", "a", "t", "h">>
         IN handle(handle(e, group, MethodGet, urlPattern, <<FSHandler>>),
                   group, MethodHead, urlPattern, <<FSHandler>>)

(* variant: only ':' is rejected *)
StaticFSCallsColonOnly(e, group, relativePath) ==
    IF Contains(relativePath, ":")
    THEN [e EXCEPT !.panic =
            "URL parameters can not be used when serving a static folder"]
    ELSE LET urlPattern == PathJoin(relativePath,
                              <<"/", "*", "f", "i", "l", "e", "p", "a", "t", "h">>)
         IN handle(handle(e, group, MethodGet, urlPattern, <<FSHandler>>),
                   group, MethodHead, urlPattern, <<FSHandler>>)

StaticFSCalls(e, group, relativePath) ==
    IF Contains(relativePath, ":") \/ Contains(relativePath, "*")
    THEN [e EXCEPT !.panic =
            "URL parameters can not be used when serving a static folder"]
    ELSE LET urlPattern == PathJoin(relativePath,
                              <<"/", "*", "f", "i", "l", "e", "p", "a", "t", "h">>)
         IN handle(handle(e, group, MethodGet, urlPattern, <<FSHandler>>),
                   group, MethodHead, urlPattern, <<FSHandler>>)

StaticFS(g, relativePath) ==
    /\ CanRegister
    /\ Registered(StaticFSCalls(Eng, groups[g], relativePath),
                  Call("StaticFS", g, <<>>, relativePath, <<>>))

(* Static(relativePath, root) is StaticFS(relativePath, &app.FS{Root: root}) *)
Static(g, relativePath) ==
    /\ CanRegister
    /\ Registered(StaticFSCalls(Eng, groups[g], relativePath),
                  Call("Static", g, <<>>, relativePath, <<>>))

-----------------------------------------------------------------------------
(* The configuration phase: any sequence of calls on the groups that exist *)

(* New() leaves the root group without handlers; Default() is New() followed *)
(* by h.Use(recovery.Recovery()).                                             *)
InitRoute ==
    /\ \E ctor \in {"New", "Default"}, k \in Slack :
         LET a == IF ctor = "New" THEN [heap |-> <<>>, slice |-> NilSlice]
                  ELSE GoAppend(<<>>, NilSlice, <<"recovery">>, k)
         IN /\ heap = a.heap
            /\ groups = << [Handlers |-> a.slice, basePath |-> <<Slash>>,
                            root |-> TRUE] >>
            /\ last = Call(ctor, 1, <<>>, <<>>, <<>>)
            /\ made = << [parent |-> 0, rel |-> <<>>, base |-> <<>>, mw |-> <<>>,
                          uses |-> IF ctor = "New" THEN 0 ELSE 1] >>
    /\ routes = <<>>
    /\ panic = ""
    /\ nCalls = 0
    /\ nReg = 0

GroupIds == 1..Len(groups)

NextRoute ==
    \/ \E g \in GroupIds, mw \in UseArgs, k \in Slack : Use(g, mw, k)
    \/ \E g \in GroupIds, r \in GroupPaths, mw \in GroupArgs : Group(g, r, mw)
    \/ \E g \in GroupIds, m \in HandleMethods : Handle(g, m, Users, <<"handler">>)
    \/ \E g \in GroupIds : POST(g, Users, <<"handler">>)
    \/ \E g \in GroupIds, r \in RelPaths, hs \in HandlerArgs : GET(g, r, hs)
    \/ \E g \in GroupIds : DELETE(g, Users, <<"handler">>)
    \/ \E g \in GroupIds : PATCH(g, Users, <<"handler">>)
    \/ \E g \in GroupIds : PUT(g, Users, <<"handler">>)
    \/ \E g \in GroupIds : OPTIONS(g, Users, <<"handler">>)
    \/ \E g \in GroupIds : HEAD(g, Users, <<"handler">>)
    \/ \E g \in GroupIds, hs \in HandlerArgs : Any(g, <<"/", "x">>, hs)
    \/ \E g \in GroupIds, r \in StaticPaths : StaticFile(g, r)
    \/ \E g \in GroupIds, r \in StaticPaths : Static(g, r)
    \/ \E g \in GroupIds, r \in StaticPaths : StaticFS(g, r)

-----------------------------------------------------------------------------
(* Spin: run the server until a signal or an error of h.Run() *)

Nil == "nil"
SIGINT == "interrupt"
SIGHUP == "hangup"
SIGTERM == "terminated"

(* the errors the collaborators return: Run, Registry.Register, a custom    *)
(* waiter, Close and Shutdown                                               *)
RunErrors == {"E"}
RegisterErrors == {"register failed"}
WaiterErrors == {"waiter error"}
CloseErrors == {"close failed"}
ShutdownErrors == {"shutdown failed", "context deadline exceeded"}
ExitWaitTimeouts == {1, 5}

(* a task: where it is, the value it sends, and (history) where the task    *)
(* that called Spin was when the value came to be                            *)
NoTask == [pc |-> "none", val |-> Nil, at |-> "none"]

SpinIdle ==
    /\ pc = "idle"
    /\ opts \in [custom : BOOLEAN, ExitWaitTimeout : ExitWaitTimeouts,
                 hupIgnored : BOOLEAN]
    /\ notified = {}
    /\ signals = <<>>
    /\ nSig = 0
    /\ tasks = [run |-> NoTask, reg |-> NoTask]
    /\ won = [case |-> "none", sig |-> Nil, err |-> Nil, ret |-> Nil]
    /\ calls = [Close |-> 0, WithTimeout |-> <<>>, Shutdown |-> <<>>,
                result |-> Nil]

(* variant: h.signalWaiter is not looked at, the waiter is waitSignal *)
SpinStartDefaultWaiter ==
    /\ pc = "idle"
    /\ tasks' = [tasks EXCEPT !.run = [pc |-> "start", val |-> Nil, at |-> "none"]]
    /\ pc' = "waitSignal"
    /\ UNCHANGED <<rvars, opts, notified, signals, nSig, won, calls>>

(* Spin, lines 46-56: the channel, the hook, the task of h.Run(), the waiter *)
SpinStart ==
    /\ pc = "idle"
    /\ tasks' = [tasks EXCEPT !.run = [pc |-> "start", val |-> Nil, at |-> "none"]]
    /\ pc' = IF opts.custom THEN "custom" ELSE "waitSignal"
    /\ UNCHANGED <<rvars, opts, notified, signals, nSig, won, calls>>

(* h.Run() runs the OnRun hooks: the hook of initOnRunHooks starts the task *)
(* that sleeps and then registers                                           *)
RunHooks ==
    /\ tasks.run.pc = "start"
    /\ tasks' = [tasks EXCEPT !.run.pc = "serving",
                              !.reg = [pc |-> "sleep", val |-> Nil, at |-> "none"]]
    /\ UNCHANGED <<rvars, pc, opts, notified, signals, nSig, won, calls>>

(* variant: the result is sent without waiting for a receiver *)
RunReturnsSendNoWait(err) ==
    /\ tasks.run.pc \in {"start", "serving"}
    /\ tasks' = [tasks EXCEPT !.run = [pc |-> "done", val |-> err, at |-> pc]]
    /\ UNCHANGED <<rvars, pc, opts, notified, signals, nSig, won, calls>>

(* h.Run() returns, with an error or with nil; the task then sends it *)
RunReturns(err) ==
    /\ tasks.run.pc \in {"start", "serving"}
    /\ tasks' = [tasks EXCEPT !.run = [pc |-> "send", val |-> err, at |-> pc]]
    /\ UNCHANGED <<rvars, pc, opts, notified, signals, nSig, won, calls>>

(* variant: the error is sent without waiting for a receiver *)
RegisterSendNoWait(err) ==
    /\ tasks.reg.pc = "sleep"
    /\ tasks' = [tasks EXCEPT !.reg = [pc |-> "done", val |-> err, at |-> pc]]
    /\ UNCHANGED <<rvars, pc, opts, notified, signals, nSig, won, calls>>

(* the hook's task after its sleep: Register, and on an error errChan <- err *)
Register(err) ==
    /\ tasks.reg.pc = "sleep"
    /\ tasks' = [tasks EXCEPT !.reg = IF err # Nil
                                      THEN [pc |-> "send", val |-> err, at |-> pc]
                                      ELSE [pc |-> "done", val |-> Nil, at |-> pc]]
    /\ UNCHANGED <<rvars, pc, opts, notified, signals, nSig, won, calls>>

(* waitSignal, lines 87-93 *)
signalToNotify == IF opts.hupIgnored THEN {SIGINT, SIGTERM}
                  ELSE {SIGINT, SIGHUP, SIGTERM}

WaitSignalNotify ==
    /\ pc = "waitSignal"
    /\ notified' = signalToNotify
    /\ pc' = "select"
    /\ UNCHANGED <<rvars, opts, signals, nSig, tasks, won, calls>>

(* the process is sent a signal Notify subscribed to: the os/signal package *)
(* sends it on the channel without blocking, and drops it if it is full     *)
Signal(sig) ==
    /\ pc # "returned"
    /\ nSig < MaxSignals
    /\ sig \in notified
    /\ nSig' = nSig + 1
    /\ signals' = IF Len(signals) < 1 THEN Append(signals, sig) ELSE signals
    /\ UNCHANGED <<rvars, pc, opts, notified, tasks, won, calls>>

(* variant: hangup handled like terminate *)
sigResultHupForced(sig) ==
    IF sig \in {SIGTERM, SIGHUP} THEN sig
    ELSE Nil

(* the switch of waitSignal on the signal received *)
sigResult(sig) ==
    IF sig = SIGTERM THEN SIGTERM
    ELSE IF sig \in {SIGHUP, SIGINT} THEN Nil
    ELSE Nil

(* select, case sig := <-signals *)
SelectSignal ==
    /\ pc = "select"
    /\ signals # <<>>
    /\ signals' = Tail(signals)
    /\ won' = [case |-> "signal", sig |-> Head(signals), err |-> Nil,
               ret |-> sigResult(Head(signals))]
    /\ pc' = "waited"
    /\ UNCHANGED <<rvars, opts, notified, nSig, tasks, calls>>

(* variant: whatever is received from errCh, nil too, is returned as an error *)
SelectErrChNilIsError(t) ==
    /\ pc = "select"
    /\ tasks[t].pc = "send"
    /\ tasks' = [tasks EXCEPT ![t].pc = "done"]
    /\ won' = [case |-> "errCh", sig |-> Nil, err |-> tasks[t].val,
               ret |-> IF tasks[t].val = Nil THEN "server closed"
                       ELSE tasks[t].val]
    /\ pc' = "waited"
    /\ UNCHANGED <<rvars, opts, notified, signals, nSig, calls>>

(* variant: the error received is dropped, return nil *)
SelectErrChDropped(t) ==
    /\ pc = "select"
    /\ tasks[t].pc = "send"
    /\ tasks' = [tasks EXCEPT ![t].pc = "done"]
    /\ won' = [case |-> "errCh", sig |-> Nil, err |-> tasks[t].val, ret |-> Nil]
    /\ pc' = "waited"
    /\ UNCHANGED <<rvars, opts, notified, signals, nSig, calls>>

(* select, case err := <-errCh: errCh is unbuffered, the receive pairs with *)
(* a task blocked in its send                                               *)
SelectErrCh(t) ==
    /\ pc = "select"
    /\ tasks[t].pc = "send"
    /\ tasks' = [tasks EXCEPT ![t].pc = "done"]
    /\ won' = [case |-> "errCh", sig |-> Nil, err |-> tasks[t].val,
               ret |-> tasks[t].val]
    /\ pc' = "waited"
    /\ UNCHANGED <<rvars, opts, notified, signals, nSig, calls>>

(* a waiter set by SetCustomSignalWaiter may receive from the channel *)
CustomReceive(t) ==
    /\ pc = "custom"
    /\ won.case = "none"
    /\ tasks[t].pc = "send"
    /\ tasks' = [tasks EXCEPT ![t].pc = "done"]
    /\ won' = [won EXCEPT !.case = "custom", !.err = tasks[t].val]
    /\ UNCHANGED <<rvars, pc, opts, notified, signals, nSig, calls>>

(* and returns an error or nil *)
CustomReturns(err) ==
    /\ pc = "custom"
    /\ won' = [won EXCEPT !.case = "custom", !.ret = err]
    /\ pc' = "waited"
    /\ UNCHANGED <<rvars, opts, notified, signals, nSig, tasks, calls>>

(* Spin, lines 58-60: err != nil, h.Engine.Close() *)
SpinClose ==
    /\ pc = "waited"
    /\ won.ret # Nil
    /\ calls' = [calls EXCEPT !.Close = @ + 1]
    /\ pc' = "closing"
    /\ UNCHANGED <<rvars, opts, notified, signals, nSig, tasks, won>>

(* variant: no return after Close, Spin goes on to the graceful shutdown *)
CloseFallsThrough(err) ==
    /\ pc = "closing"
    /\ calls' = [calls EXCEPT
                   !.result = err,
                   !.WithTimeout = Append(@, opts.ExitWaitTimeout),
                   !.Shutdown = Append(@, opts.ExitWaitTimeout)]
    /\ pc' = "shutting"
    /\ UNCHANGED <<rvars, opts, notified, signals, nSig, tasks, won>>

(* lines 60-63: the error of Close is logged, Spin returns *)
CloseReturns(err) ==
    /\ pc = "closing"
    /\ calls' = [calls EXCEPT !.result = err]
    /\ pc' = "returned"
    /\ UNCHANGED <<rvars, opts, notified, signals, nSig, tasks, won>>

(* Spin, lines 66-71: context.WithTimeout(ExitWaitTimeout), h.Shutdown(ctx) *)
SpinShutdown ==
    /\ pc = "waited"
    /\ won.ret = Nil
    /\ calls' = [calls EXCEPT
                   !.WithTimeout = Append(@, opts.ExitWaitTimeout),
                   !.Shutdown = Append(@, opts.ExitWaitTimeout)]
    /\ pc' = "shutting"
    /\ UNCHANGED <<rvars, opts, notified, signals, nSig, tasks, won>>

(* variant: an error of Shutdown ends the process instead of being logged *)
ShutdownReturnsFatalOnError(err) ==
    /\ pc = "shutting"
    /\ calls' = [calls EXCEPT !.result = err]
    /\ pc' = IF err # Nil THEN "fatal" ELSE "returned"
    /\ UNCHANGED <<rvars, opts, notified, signals, nSig, tasks, won>>

(* lines 71-74: the error of Shutdown is logged, Spin returns *)
ShutdownReturns(err) ==
    /\ pc = "shutting"
    /\ calls' = [calls EXCEPT !.result = err]
    /\ pc' = "returned"
    /\ UNCHANGED <<rvars, opts, notified, signals, nSig, tasks, won>>

NextSpin ==
    \/ SpinStart
    \/ RunHooks
    \/ \E e \in RunErrors \cup {Nil} : RunReturns(e)
    \/ \E e \in RegisterErrors \cup {Nil} : Register(e)
    \/ WaitSignalNotify
    \/ \E sig \in {SIGINT, SIGHUP, SIGTERM} : Signal(sig)
    \/ SelectSignal
    \/ \E t \in {"run", "reg"} : SelectErrCh(t)
    \/ \E t \in {"run", "reg"} : CustomReceive(t)
    \/ \E e \in WaiterErrors \cup {Nil} : CustomReturns(e)
    \/ SpinClose
    \/ \E e \in CloseErrors \cup {Nil} : CloseReturns(e)
    \/ SpinShutdown
    \/ \E e \in ShutdownErrors \cup {Nil} : ShutdownReturns(e)

-----------------------------------------------------------------------------
(* The specifications: the configuration of the routes, and Spin *)

(* the configuration phase runs before Spin is called *)
Init ==
    /\ InitRoute
    /\ SpinIdle
    /\ opts = [custom |-> FALSE, ExitWaitTimeout |-> 5, hupIgnored |-> FALSE]

Spec == Init /\ [][NextRoute]_vars

(* Spin on an engine made by New(); SetCustomSignalWaiter, the option      *)
(* ExitWaitTimeout and the disposition of SIGHUP are set before the call   *)
InitSpin ==
    /\ SpinIdle
    /\ heap = <<>>
    /\ groups = << [Handlers |-> NilSlice, basePath |-> <<Slash>>, root |-> TRUE] >>
    /\ routes = <<>>
    /\ panic = ""
    /\ last = Call("New", 1, <<>>, <<>>, <<>>)
    /\ nCalls = 0
    /\ nReg = 0
    /\ made = << [parent |-> 0, rel |-> <<>>, base |-> <<>>, mw |-> <<>>,
                  uses |-> 0] >>

SpinSpec == InitSpin /\ [][NextSpin]_vars

(* the steps of the task that called Spin with the default waiter *)
MainStep ==
    \/ SpinStart
    \/ WaitSignalNotify
    \/ SelectSignal
    \/ \E t \in {"run", "reg"} : SelectErrCh(t)
    \/ SpinClose
    \/ \E e \in CloseErrors \cup {Nil} : CloseReturns(e)
    \/ SpinShutdown
    \/ \E e \in ShutdownErrors \cup {Nil} : ShutdownReturns(e)

(* Spin under a fair scheduler: the task that called Spin takes its next   *)
(* step when it can, Close returns and Shutdown returns (by its deadline). *)
(* Nothing is assumed of h.Run(), of Register, of a custom waiter or of    *)
(* the signals the process is sent.                                        *)
SpinFair == InitSpin /\ [][NextSpin]_vars /\ WF_vars(MainStep)

(* groups of groups and static mounts on an engine made by New(), over the *)
(* relative paths of PathInputs                                            *)
InitPath ==
    /\ SpinIdle
    /\ opts = [custom |-> FALSE, ExitWaitTimeout |-> 5, hupIgnored |-> FALSE]
    /\ heap = <<>>
    /\ groups = << [Handlers |-> NilSlice, basePath |-> <<Slash>>, root |-> TRUE] >>
    /\ routes = <<>>
    /\ panic = ""
    /\ last = Call("New", 1, <<>>, <<>>, <<>>)
    /\ nCalls = 0
    /\ nReg = 0
    /\ made = << [parent |-> 0, rel |-> <<>>, base |-> <<>>, mw |-> <<>>,
                  uses |-> 0] >>

NextPath ==
    \/ \E g \in GroupIds, r \in GroupRels : Group(g, r, <<>>)
    \/ \E g \in GroupIds, r \in GetRels : GET(g, r, <<"handler">>)
    \/ \E g \in GroupIds, r \in StaticRels : Static(g, r)
    \/ \E g \in GroupIds, r \in PathInputs : StaticFS(g, r)

PathSpec == InitPath /\ [][NextPath]_vars

-----------------------------------------------------------------------------
(* Properties of the route groups, under Spec *)

HandlersIn(h, gs, g) == Elems(h, gs[g].Handlers)

(* the calls made to addRoute, each chain read through the heap *)
RoutesView(h, rs) ==
    [i \in 1..Len(rs) |-> [method |-> rs[i].method, path |-> rs[i].path,
                           chain  |-> Elems(h, rs[i].handlers)]]

(* this step is a call of one of ops *)
Called(ops) == nCalls' = nCalls + 1 /\ last'.op \in ops

Shortcuts == {"GET", "POST", "DELETE", "PATCH", "PUT", "OPTIONS", "HEAD"}
StaticOps == {"StaticFile", "Static", "StaticFS"}
Reserved(p) == Contains(p, ":") \/ Contains(p, "*")

C4Step ==
    /\ (Called(Shortcuts \cup {"Handle"}) /\ panic' = "") =>
          RoutesView(heap', routes') =
             Append(RoutesView(heap, routes),
                    [method |-> last'.method,
                     path   |-> joinPaths(groups[last'.g].basePath, last'.path),
                     chain  |-> Handlers(last'.g) \o last'.hs])
    /\ ( /\ Called({"GET"}) /\ panic' = ""
         /\ last' = Call("GET", 2, <<"G", "E", "T">>,
                         <<"/", "u", "s", "e", "r", "s">>, <<"handler">>)
         /\ groups[1].basePath = <<"/">>
         /\ made[2] = [parent |-> 1, rel |-> <<"/", "a", "p", "i">>,
                       base |-> <<"authMW">>, mw |-> <<"loggingMW">>, uses |-> 0] )
       => RoutesView(heap', routes')[Len(routes')] =
             [method |-> <<"G", "E", "T">>,
              path   |-> <<"/", "a", "p", "i", "/", "u", "s", "e", "r", "s">>,
              chain  |-> <<"authMW", "loggingMW", "handler">>]

(* C4: a route registered through a group g by a verb shortcut or Handle is  *)
(* handed to addRoute exactly once, as (method, joinPaths(g.basePath, r),    *)
(* g.Handlers ++ hs) with g.Handlers as it is at the call; on a root "/",    *)
(* Use(authMW), Group("/api", loggingMW).GET("/users", handler) registers    *)
(* GET, "/api/users", [authMW, loggingMW, handler].                          *)
C4_RouteHandedToEngineOnce == [][C4Step]_vars

(* C4 witness: the scenario has run *)
C4_Witness ==
    /\ last = Call("GET", 2, MethodGet, Users, <<"handler">>)
    /\ panic = ""
    /\ made[1].uses = 1 /\ Handlers(1) = <<"authMW">>
    /\ Len(groups) = 2 /\ made[2].mw = <<"loggingMW">>
    /\ Len(routes) = 1
    /\ routes[1].path = <<"/", "a", "p", "i", "/", "u", "s", "e", "r", "s">>

(* C5: g.Group(p, m1).Group(q, m2).Handlers is g.Handlers ++ m1 ++ m2, with *)
(* g.Handlers as at the first Group call, and stays so under any later Use  *)
(* on g or on the intermediate group: the descendant shares no storage.     *)
C5_GroupOfGroupConcatenates ==
    \A d \in GroupIds :
        LET c == made[d].parent IN
        ( /\ c # 0
          /\ made[c].parent # 0
          /\ made[d].base = made[c].base \o made[c].mw
          /\ made[d].uses = 0 )
        => Handlers(d) = made[c].base \o made[c].mw \o made[d].mw

(* C5 witness: a group of a group, all three parts non-empty, and Use was   *)
(* called on g after the descendant was created                             *)
C5_Witness ==
    \E d \in GroupIds :
        LET c == made[d].parent IN
        /\ c # 0 /\ made[c].parent # 0
        /\ made[d].base = made[c].base \o made[c].mw
        /\ made[d].uses = 0
        /\ made[c].base # <<>> /\ made[c].mw # <<>> /\ made[d].mw # <<>>
        /\ last.op = "Use" /\ last.g = made[c].parent
        /\ Handlers(made[c].parent) # made[c].base

C6Step ==
    Called({"Use"}) =>
        LET g == last'.g IN
        /\ HandlersIn(heap', groups', g) = Handlers(g) \o last'.hs
        /\ Len(groups') = Len(groups)
        /\ \A o \in GroupIds :
              /\ o # g => HandlersIn(heap', groups', o) = Handlers(o)
              /\ groups'[o].basePath = groups[o].basePath
              /\ groups'[o].root = groups[o].root
        /\ RoutesView(heap', routes') = RoutesView(heap, routes)
        /\ panic' = panic

(* C6: Use(mw) on g appends mw to g.Handlers and changes nothing else: the  *)
(* chains of the routes already registered, the Handlers of every other     *)
(* group and every basePath stay as they were.                              *)
C6_UseChangesOnlyItsGroup == [][C6Step]_vars

(* C6 witness: Use on a group that has a parent, while a route is registered *)
C6_Witness ==
    /\ last.op = "Use" /\ last.g # 1
    /\ routes # <<>>
    /\ Handlers(last.g) # Handlers(1)

(* C7 as stated: every group's handler sequence is shorter than AbortIndex  *)
C7_AllGroupsBelowSentinel ==
    \A g \in GroupIds : Len(Handlers(g)) < AbortIndex

(* C7 amended: the handler sequence of a group is shorter than AbortIndex   *)
(* as long as Use has not been called on that group; Use appends without a  *)
(* limit test.                                                              *)
C7_BelowSentinelUntilUse ==
    \A g \in GroupIds : made[g].uses = 0 => Len(Handlers(g)) < AbortIndex

(* C7 witness: Group made a group whose sequence is one below the sentinel  *)
(* out of a parent grown by Use                                             *)
C7_Witness ==
    \E g \in GroupIds :
        /\ made[g].parent # 0 /\ made[g].uses = 0
        /\ Len(Handlers(g)) = AbortIndex - 1
        /\ made[made[g].parent].uses > 0

(* the calls that reach combineHandlers, and the handlers they add *)
Combines(call) ==
    \/ call.op \in Shortcuts \cup {"Group", "Any"}
    \/ call.op = "Handle" /\ upperLetterReg(call.method)
    \/ call.op \in StaticOps /\ ~Reserved(call.path)

Added(call) == IF call.op \in StaticOps THEN 1 ELSE Len(call.hs)

C8Step ==
    (nCalls' = nCalls + 1) =>
        LET n == Len(Handlers(last'.g)) + Added(last') IN
        IF Combines(last')
        THEN /\ (panic' = "too many handlers") <=> (n >= AbortIndex)
             /\ n >= AbortIndex =>
                   /\ groups' = groups
                   /\ routes' = routes
             /\ n <= AbortIndex - 1 =>
                   /\ panic' = ""
                   /\ IF last'.op = "Group"
                      THEN Len(groups') = Len(groups) + 1
                      ELSE Len(routes') > Len(routes)
        ELSE panic' # "too many handlers"

(* C8: combining a group's handlers with additional ones, in Group and in   *)
(* every registration, panics with "too many handlers" exactly when         *)
(* len(group.Handlers) + len(additional) >= AbortIndex and succeeds when    *)
(* the sum is AbortIndex - 1 or less; when it panics no group is created    *)
(* and no route is added.                                                   *)
C8_TooManyHandlersExactlyAtSentinel == [][C8Step]_vars

(* C8 witness: Group panicked with the sum exactly AbortIndex *)
C8_Witness ==
    /\ panic = "too many handlers"
    /\ last.op = "Group"
    /\ Len(Handlers(last.g)) + Len(last.hs) = AbortIndex

AnyOrder == << <<"G", "E", "T">>, <<"P", "O", "S", "T">>, <<"P", "U", "T">>,
               <<"P", "A", "T", "C", "H">>, <<"H", "E", "A", "D">>,
               <<"O", "P", "T", "I", "O", "N", "S">>,
               <<"D", "E", "L", "E", "T", "E">>,
               <<"C", "O", "N", "N", "E", "C", "T">>, <<"T", "R", "A", "C", "E">> >>

C9Step ==
    (Called({"Any"}) /\ panic' = "") =>
        LET g == last'.g IN
        /\ RoutesView(heap', routes') =
              RoutesView(heap, routes) \o
              [i \in 1..9 |->
                 [method |-> AnyOrder[i],
                  path   |-> joinPaths(groups[g].basePath, last'.path),
                  chain  |-> Handlers(g) \o last'.hs]]
        /\ (g = 1 /\ last'.path = <<"/", "x">>) =>
              routes'[Len(routes')].path = <<"/", "x">>
        /\ groups' = groups
        /\ HandlersIn(heap', groups', g) = Handlers(g)

(* C9: a successful Any(r, hs) on g makes exactly 9 calls of addRoute, in   *)
(* the order GET, POST, PUT, PATCH, HEAD, OPTIONS, DELETE, CONNECT, TRACE,  *)
(* all with the path joinPaths(g.basePath, r) and the chain g.Handlers ++   *)
(* hs, and leaves g.Handlers as it was.                                     *)
C9_AnyRegistersNineMethods == [][C9Step]_vars

(* C9 witness: Any succeeded on a group below the root that has handlers *)
C9_Witness ==
    /\ last.op = "Any" /\ panic = ""
    /\ last.g # 1
    /\ Handlers(last.g) # <<>>
    /\ Len(routes) = 9

(* what a static registration that succeeds adds: GET then HEAD, the same   *)
(* path, the same chain ending in the one handler                           *)
TwoStaticRoutes ==
    LET g == last'.g
        n == Len(routes)
        v == RoutesView(heap', routes')
        handler == IF last'.op = "StaticFile" THEN FileHandler ELSE FSHandler
    IN /\ panic' = ""
       /\ Len(routes') = n + 2
       /\ SubSeq(v, 1, n) = RoutesView(heap, routes)
       /\ v[n + 1].method = <<"G", "E", "T">>
       /\ v[n + 2].method = <<"H", "E", "A", "D">>
       /\ v[n + 1].path = v[n + 2].path
       /\ last'.op = "StaticFile" =>
             v[n + 1].path = joinPaths(groups[g].basePath, last'.path)
       /\ v[n + 1].chain = Handlers(g) \o <<handler>>
       /\ v[n + 2].chain = v[n + 1].chain

C10StepAsStated ==
    Called(StaticOps) =>
        IF Reserved(last'.path)
        THEN panic' # "" /\ routes' = routes
        ELSE TwoStaticRoutes

(* C10 as stated: StaticFile, Static and StaticFS panic when the relative   *)
(* path contains ':' or '*' and then register nothing; otherwise they       *)
(* register exactly two routes, GET then HEAD, same path, same handler.     *)
C10_StaticRegistersGetAndHead == [][C10StepAsStated]_vars

C10StepAmended ==
    Called(StaticOps) =>
        IF Reserved(last'.path)
        THEN panic' # "" /\ panic' # "too many handlers" /\ routes' = routes
        ELSE IF Len(Handlers(last'.g)) + 1 < AbortIndex
             THEN TwoStaticRoutes
             ELSE panic' = "too many handlers" /\ routes' = routes

(* C10 amended: ... otherwise, when the group's chain has room for the      *)
(* handler (len(g.Handlers) + 1 < AbortIndex), they register exactly two    *)
(* routes, GET then HEAD, same path, same handler; when it has no room they *)
(* panic with "too many handlers" and register nothing.                     *)
C10_StaticRegistersGetAndHeadIfRoom == [][C10StepAmended]_vars

(* C10 witness: StaticFS registered its two routes on a group whose chain   *)
(* had room for exactly one more handler                                    *)
C10_Witness ==
    /\ last.op = "StaticFS" /\ panic = ""
    /\ Len(Handlers(last.g)) = AbortIndex - 2
    /\ Len(routes) = 2
    /\ routes[1].method = MethodGet /\ routes[2].method = MethodHead

(* C16 as stated: a handler-count overflow in Any strikes mid-sequence, with *)
(* at least one and fewer than nine of the methods already registered.      *)
C16_AnyOverflowLeavesSomeRegistered ==
    [][(Called({"Any"}) /\ panic' = "too many handlers") =>
          (Len(routes') - Len(routes)) \in 1..8]_vars

C16Step ==
    Called({"Any"}) =>
        LET n == Len(Handlers(last'.g)) + Len(last'.hs) IN
        /\ Len(routes') - Len(routes) \in {0, 9}
        /\ n >= AbortIndex =>
              /\ panic' = "too many handlers"
              /\ routes' = routes
              /\ RoutesView(heap', routes') = RoutesView(heap, routes)
        /\ n < AbortIndex =>
              /\ panic' = ""
              /\ Len(routes') = Len(routes) + 9

(* C16 amended: with respect to handler-count overflow Any is all or        *)
(* nothing: its nine registrations combine the same chain with the same     *)
(* handlers, so "too many handlers" strikes at the first one, before any    *)
(* method is registered, or not at all.                                     *)
C16_AnyOverflowRegistersNothing == [][C16Step]_vars

(* C16 witness: Any overflowed on a chain one handler too long, and no      *)
(* route was registered                                                     *)
C16_Witness ==
    /\ last.op = "Any"
    /\ panic = "too many handlers"
    /\ Len(Handlers(last.g)) + Len(last.hs) = AbortIndex
    /\ routes = <<>>

(* C19: every handler chain handed to addRoute is shorter than AbortIndex,  *)
(* after any sequence of Use, Group and registration calls, also when Use   *)
(* has grown a group's own Handlers to AbortIndex or beyond.                *)
C19_RegisteredChainsBelowSentinel ==
    \A i \in 1..Len(routes) :
        /\ routes[i].handlers.len < AbortIndex
        /\ Len(Elems(heap, routes[i].handlers)) = routes[i].handlers.len

(* C19 witness: a route with a chain one below the sentinel is registered,  *)
(* and Use has since grown the Handlers of its group to the sentinel        *)
C19_Witness ==
    /\ routes # <<>>
    /\ routes[1].handlers.len = AbortIndex - 1
    /\ last.op = "Use" /\ made[last.g].uses >= 2
    /\ Len(Handlers(last.g)) >= AbortIndex

AsciiUpper == {"A", "B", "C", "D", "E", "F", "G", "H", "I", "J", "K", "L", "M",
               "N", "O", "P", "Q", "R", "S", "T", "U", "V", "W", "X", "Y", "Z"}

OnlyUpperLetters(m) == m # <<>> /\ \A i \in 1..Len(m) : m[i] \in AsciiUpper

C11Step ==
    /\ Called({"Handle"}) =>
          IF OnlyUpperLetters(last'.method)
          THEN /\ panic' \in {"", "too many handlers"}
               /\ panic' = "" =>
                     /\ Len(routes') = Len(routes) + 1
                     /\ routes'[Len(routes')].method = last'.method
          ELSE /\ panic' = "http method is not valid"
               /\ routes' = routes
               /\ heap' = heap
               /\ groups' = groups
    /\ Called(Shortcuts \cup {"Any"}) => panic' # "http method is not valid"

(* C11: Handle(method, r, hs) registers a route only when method is one or  *)
(* more letters A-Z and nothing else; for every other method (empty, lower  *)
(* case, digit, punctuation, whitespace) it panics before a path or a chain *)
(* is computed and the route table stays as it is.  The verb shortcuts and  *)
(* Any never fail this validation.                                          *)
C11_HandleValidatesMethod == [][C11Step]_vars

(* C11 witness: Handle refused a method that has upper-case letters and one *)
(* other character, on a group where routes could have been registered      *)
C11_Witness ==
    /\ last.op = "Handle"
    /\ last.method = <<"G", "E", "T", " ">>
    /\ panic = "http method is not valid"
    /\ Len(Handlers(last.g)) + Len(last.hs) < AbortIndex
    /\ routes = <<>>

-----------------------------------------------------------------------------
(* Properties of the path computations, under PathSpec *)

EndsInSlash(p) == p # <<>> /\ p[Len(p)] = "/"

(* what joinPaths is to return for b and r, given the canonical join *)
C12Joined(b, r, res) ==
    LET canon == PathJoin(b, r) IN
    IF r = <<>> THEN res = b
    ELSE IF EndsInSlash(r) /\ ~EndsInSlash(canon)
         THEN /\ res = canon \o <<"/">>
              /\ Len(res) >= 2 /\ res[Len(res) - 1] # "/"
         ELSE res = canon

C12Step ==
    /\ (Called({"Group"}) /\ panic' = "") =>
          C12Joined(groups[last'.g].basePath, last'.path,
                    groups'[Len(groups')].basePath)
    /\ (Called({"GET"}) /\ panic' = "") =>
          C12Joined(groups[last'.g].basePath, last'.path,
                    routes'[Len(routes')].path)
    /\ ( /\ Called({"Group"})
         /\ groups[last'.g].basePath = <<"/", "a">>
         /\ last'.path = <<"a", "/", "/">> )
       => groups'[Len(groups')].basePath = <<"/", "a", "/", "a", "/">>
    /\ ( /\ Called({"GET"})
         /\ groups[last'.g].basePath = <<"/", "a", "/">>
         /\ last'.path \in {<<".", ".">>, <<"/", ".", ".">>} )
       => routes'[Len(routes')].path = <<"/">>

(* C12: joinPaths(b, "") is b; for a non-empty r that ends in '/' while the *)
(* canonical join path.Join(b, r) does not, joinPaths(b, r) is that join    *)
(* with exactly one '/' appended; otherwise it is the canonical join.       *)
C12_JoinPathsKeepsTrailingSlash == [][C12Step]_vars

(* C12 witness: a group of base path "/a/" made by a join that appended the *)
(* separator, and then a join with "" that left it unchanged                *)
C12_Witness ==
    /\ last.op = "Group" /\ last.path = <<>>
    /\ groups[last.g].basePath = <<"/", "a", "/">>
    /\ groups[Len(groups)].basePath = <<"/", "a", "/">>
    /\ made[last.g].rel \in {<<"a", "/">>, <<"a", "/", "/">>}

Wildcard == <<"/", "*", "f", "i", "l", "e", "p", "a", "t", "h">>

HasDotDot(r) == \E i \in 1..(Len(r) - 1) : r[i] = "." /\ r[i + 1] = "."

(* the path of the two routes a successful Static or StaticFS step added *)
MountedPath == routes'[Len(routes')].path

MountStep ==
    /\ Called({"Static", "StaticFS"})
    /\ panic' = ""
    /\ Len(routes') = Len(routes) + 2

(* C18 as stated: the path registered by Static and StaticFS is             *)
(* joinPaths(g.basePath, r + "/*filepath") for every r.                     *)
C18_StaticMountsConcatenation ==
    [][MountStep =>
          MountedPath = joinPaths(groups[last'.g].basePath,
                                  last'.path \o Wildcard)]_vars

C18Step ==
    MountStep =>
        LET b == groups[last'.g].basePath
            r == last'.path
        IN /\ MountedPath = joinPaths(b, PathJoin(r, Wildcard))
           /\ routes'[Len(routes') - 1].path = MountedPath
           /\ ~HasDotDot(r) => MountedPath = joinPaths(b, r \o Wildcard)
           /\ r = <<>> => MountedPath = joinPaths(b, Wildcard)
           /\ (b = <<"/", "a">> /\ r = <<"/", ".", ".">>) =>
                 MountedPath = <<"/", "a">> \o Wildcard
           /\ (b = <<"/", "a">> /\ r = <<".", ".">>) => MountedPath = Wildcard
           /\ (b = <<"/", "a", "/">> /\ r = <<"a", "/", "/">>) =>
                 MountedPath = <<"/", "a", "/", "a">> \o Wildcard

(* C18 amended: the path registered for GET and HEAD by a successful Static *)
(* or StaticFS is joinPaths(g.basePath, path.Join(r, "/*filepath")): r and  *)
(* the wildcard are joined and cleaned first, then joined to the base path. *)
(* It is joinPaths(g.basePath, r + "/*filepath") for every r without a ..   *)
(* segment (r empty, r ending in '/', r with . segments); a .. that climbs  *)
(* above a rooted r is dropped and does not climb into the base path.       *)
C18_StaticMountsCleanedJoin == [][C18Step]_vars

(* C18 witness: StaticFS("/..") on the group of base path "/a" registered   *)
(* "/a/*filepath"                                                           *)
C18_Witness ==
    /\ last.op = "StaticFS" /\ last.path = <<"/", ".", ".">>
    /\ panic = ""
    /\ groups[last.g].basePath = <<"/", "a">>
    /\ Len(routes) = 2
    /\ routes[1].path = <<"/", "a", "/", "*", "f", "i", "l", "e", "p", "a", "t", "h">>
    /\ routes[2].path = routes[1].path

-----------------------------------------------------------------------------
(* Properties of Spin, under SpinSpec *)

AfterClose == pc \in {"closing", "returned"}
AfterShutdown == pc \in {"shutting", "returned"}
Graceful == <<opts.ExitWaitTimeout>>

(* C1: with the default waiter, the signal the select of waitSignal receives *)
(* decides the branch.  After SIGINT or SIGHUP Spin invokes Shutdown with a  *)
(* context of deadline ExitWaitTimeout and never Close; after SIGTERM it     *)
(* invokes Close, never Shutdown, and creates no deadline context.  Nothing  *)
(* depends on what Shutdown or Close returns.                                *)
C1_SignalDecidesBranch ==
    (~opts.custom /\ won.case = "signal") =>
        /\ won.sig \in {SIGINT, SIGHUP, SIGTERM}
        /\ won.sig \in {SIGINT, SIGHUP} =>
              /\ calls.Close = 0
              /\ calls.WithTimeout = calls.Shutdown
              /\ calls.Shutdown = IF AfterShutdown THEN Graceful ELSE <<>>
              /\ pc \in {"waited", "shutting", "returned"}
        /\ won.sig = SIGTERM =>
              /\ calls.Shutdown = <<>>
              /\ calls.WithTimeout = <<>>
              /\ calls.Close = IF AfterClose THEN 1 ELSE 0
              /\ pc \in {"waited", "closing", "returned"}

(* C1 witness: hangup was received first, Shutdown returned an error, Spin returned *)
C1_Witness ==
    /\ ~opts.custom
    /\ won.case = "signal" /\ won.sig = SIGHUP
    /\ pc = "returned"
    /\ calls.result \in ShutdownErrors
    /\ calls.Shutdown = Graceful

(* C2: when the select of waitSignal receives a non-nil error from errCh    *)
(* (sent by the task of h.Run() or by the registration task), and so before *)
(* any signal is received, Spin takes the immediate-close path: Close is    *)
(* invoked, Shutdown never, and no deadline context is created.             *)
C2_ErrorForcesClose ==
    (won.case = "errCh" /\ won.err # Nil) =>
        /\ calls.Shutdown = <<>>
        /\ calls.WithTimeout = <<>>
        /\ calls.Close = IF AfterClose THEN 1 ELSE 0
        /\ pc \in {"waited", "closing", "returned"}

(* C2 witness: the error of a failed Register was received while h.Run() is *)
(* still serving and a signal is waiting in the channel; Spin has returned  *)
C2_Witness ==
    /\ won.case = "errCh" /\ won.err \in RegisterErrors
    /\ tasks.run.pc = "serving"
    /\ signals # <<>>
    /\ pc = "returned"
    /\ calls.Close = 1

(* C3: every execution of Spin that returns has invoked exactly one of Close *)
(* and Shutdown, exactly once, whatever the tasks and the signals did.       *)
C3_ExactlyOneShutdownOperation ==
    /\ calls.Close + Len(calls.Shutdown) <= 1
    /\ pc = "returned" => calls.Close + Len(calls.Shutdown) = 1

(* C3 witness: Spin returned after Close while the registration task is     *)
(* blocked in its send and two signals went to the process                  *)
C3_Witness ==
    /\ pc = "returned"
    /\ calls.Close = 1
    /\ tasks.reg.pc = "send"
    /\ tasks.run.pc = "done"
    /\ nSig = MaxSignals

AfterWaiter == pc \in {"waited", "closing", "shutting", "returned"}

(* C13: after SetCustomSignalWaiter(f) Spin calls f and not waitSignal, so  *)
(* Spin subscribes to no signal; when f returns an error Spin invokes Close *)
(* and never Shutdown, when f returns nil Spin invokes Shutdown with the    *)
(* deadline ExitWaitTimeout and never Close.                                *)
C13_CustomWaiterReplacesDefault ==
    opts.custom =>
        /\ pc \notin {"waitSignal", "select"}
        /\ notified = {} /\ signals = <<>> /\ nSig = 0
        /\ won.case \in {"none", "custom"}
        /\ ~AfterWaiter => (calls.Close = 0 /\ calls.Shutdown = <<>>)
        /\ (AfterWaiter /\ won.ret # Nil) =>
              /\ calls.Shutdown = <<>> /\ calls.WithTimeout = <<>>
              /\ calls.Close = IF AfterClose THEN 1 ELSE 0
              /\ pc # "shutting"
        /\ (AfterWaiter /\ won.ret = Nil) =>
              /\ calls.Close = 0
              /\ calls.WithTimeout = calls.Shutdown
              /\ calls.Shutdown = IF AfterShutdown THEN Graceful ELSE <<>>
              /\ pc # "closing"

(* C13 witness: the custom waiter returned nil although it had received an  *)
(* error of h.Run() from the channel; Spin returned after Shutdown          *)
C13_Witness ==
    /\ opts.custom
    /\ won.case = "custom" /\ won.err \in RunErrors /\ won.ret = Nil
    /\ pc = "returned"
    /\ calls.Shutdown = Graceful /\ calls.Close = 0

(* the sends on errCh that have completed: a task past its send *)
Delivered(t) ==
    IF t = "run" THEN tasks.run.pc = "done"
    ELSE tasks.reg.pc = "done" /\ tasks.reg.val # Nil

NDelivered ==
    (IF Delivered("run") THEN 1 ELSE 0) + (IF Delivered("reg") THEN 1 ELSE 0)

C14Receives ==
    ~opts.custom =>
        /\ NDelivered <= 1
        /\ NDelivered = 1 <=> won.case = "errCh"
        /\ \A t \in {"run", "reg"} : Delivered(t) => won.err = tasks[t].val

C14Step ==
    /\ C14Receives'
    /\ (~opts.custom /\ AfterWaiter) =>
          \A t \in {"run", "reg"} : tasks[t].pc = "send" => tasks'[t] = tasks[t]

(* C14: the registration task and the task of h.Run() send on the same      *)
(* channel and waitSignal receives from it at most once; a task that is at  *)
(* its send once waitSignal has returned stays there in every later step,   *)
(* also after Spin returned (the witness: Register failed after the select  *)
(* had received a signal).                                                  *)
C14_SendAfterRaceBlocksForever == [][C14Step]_vars

(* C14 witness: Register failed when waitSignal had already returned for a  *)
(* signal; Spin has returned and the registration task is at its send       *)
C14_Witness ==
    /\ ~opts.custom
    /\ won.case = "signal"
    /\ tasks.reg.pc = "send" /\ tasks.reg.val \in RegisterErrors
    /\ tasks.reg.at \in {"waited", "closing", "shutting"}
    /\ pc = "returned"

(* C20: with the default waiter, when h.Run() returns nil and the select    *)
(* receives that nil from errCh, waitSignal returns nil and Spin takes the  *)
(* graceful path: Shutdown with the deadline ExitWaitTimeout, Close never.  *)
(* Close is invoked only after a non-nil value from errCh or SIGTERM.       *)
C20_NilFromRunIsGraceful ==
    ~opts.custom =>
        /\ (won.case = "errCh" /\ won.err = Nil) =>
              /\ won.ret = Nil
              /\ tasks.run.pc = "done" /\ tasks.run.val = Nil
              /\ calls.Close = 0
              /\ calls.WithTimeout = calls.Shutdown
              /\ calls.Shutdown = IF AfterShutdown THEN Graceful ELSE <<>>
              /\ pc \in {"waited", "shutting", "returned"}
        /\ calls.Close > 0 =>
              \/ won.case = "errCh" /\ won.err # Nil
              \/ won.case = "signal" /\ won.sig = SIGTERM

(* C20 witness: h.Run() returned nil while waitSignal was in its select, the *)
(* select received it, no signal was ever sent, Spin returned after Shutdown *)
C20_Witness ==
    /\ ~opts.custom
    /\ won.case = "errCh" /\ won.err = Nil
    /\ tasks.run.at = "select"
    /\ pc = "returned"
    /\ calls.Shutdown = Graceful /\ calls.Close = 0
    /\ nSig = 0

-----------------------------------------------------------------------------
(* Properties of Spin under the fair scheduler, SpinFair *)

(* C15 as stated: whenever h.Run() has returned, the send of its result on  *)
(* errCh eventually completes.                                              *)
C15_RunResultEventuallyDelivered ==
    (tasks.run.pc = "send") ~> (tasks.run.pc = "done")

C15Step ==
    ~opts.custom =>
        /\ (tasks.run.pc # "done" /\ tasks'.run.pc = "done") =>
              /\ tasks.run.pc = "send"
              /\ pc = "select" /\ pc' = "waited"
              /\ won.case = "none"
              /\ won'.case = "errCh" /\ won'.err = tasks.run.val
        /\ (tasks.run.pc = "send" /\ AfterWaiter) => tasks'.run = tasks.run

(* C15 amended: with the default waiter, the send of the result of h.Run()  *)
(* completes only by the one receive of waitSignal's select; once           *)
(* waitSignal has returned (a signal or the other task's error won), a run  *)
(* task at its send stays there, also when h.Run() returned only because of *)
(* the Shutdown or Close that followed.                                     *)
C15_RunResultDeliveredOnlyToSelect == [][C15Step]_vars

(* C15 witness: a signal won, h.Run() returned while Shutdown was running,  *)
(* Spin has returned and the run task is at its send                        *)
C15_Witness ==
    /\ ~opts.custom
    /\ won.case = "signal"
    /\ tasks.run.pc = "send" /\ tasks.run.at = "shutting"
    /\ pc = "returned"

(* C17: under the fair scheduler Spin terminates.  With the default waiter, *)
(* once a signal it subscribed to is in the channel or the select has       *)
(* received a value from errCh, and for any waiter once it has returned,    *)
(* Spin eventually returns; an error of Close or of Shutdown (its deadline  *)
(* exceeded included) does not keep it from returning, and it waits for     *)
(* neither of the two tasks.                                                *)
C17_SpinTerminates ==
    ( \/ ~opts.custom /\ (signals # <<>> \/ won.case = "errCh")
      \/ AfterWaiter )
    ~> (pc = "returned")

(* C17 witness: Spin returned although Shutdown ran into its deadline,      *)
(* h.Run() has not returned and the registration task has not registered    *)
C17_Witness ==
    /\ pc = "returned"
    /\ won.case = "signal"
    /\ calls.result = "context deadline exceeded"
    /\ tasks.run.pc = "serving"
    /\ tasks.reg.pc = "sleep"

====
